---- MODULE Spec2Model ----
(***************************************************************************)
(* PostFlow server: the user directory (access requests and approvals),    *)
(* the post store and the tag store, as driven by the route handlers of    *)
(* the API server and of the stand-alone posts server.                     *)
(*                                                                         *)
(* The handlers of the user directory are cut at their store operations:   *)
(* one action per store operation, carrying the synchronous code that      *)
(* precedes it and, for the last one, the response.  Concurrent requests   *)
(* interleave at these cuts.  The handlers of the post and tag routes are  *)
(* one action each: they read the directory, which no post or tag route    *)
(* writes, and then make a single store operation.                         *)
(***************************************************************************)
EXTENDS Integers, Sequences, FiniteSets, Bags, TLC

VARIABLES users, posts, tags, now, inflight, resp

vars == <<users, posts, tags, now, inflight, resp>>

\* ------------------------------------------------------------------ bounds
MaxUsers == 3   \* records in the users collection
MaxPosts == 2   \* records in the posts collection
MaxTags  == 1   \* records in the tags collection
MaxTime  == 2   \* last value of the clock read by new Date()

\* ------------------------------------------------------------- vocabulary
\* Requests in flight are a bag of continuations, one per request that is
\* waiting on a store operation.  Two at once: every interleaving of the
\* store operations of two requests.
Busy == BagCardinality(inflight) >= 2

\* Subjects the token verifier vouches for; "a" is the bootstrap admin.
Subjects == {"a", "b"}

\* Callers of the post and tag routes: with the directory of InitPosts, "a"
\* is an admin, "b" a creator, "c" a publisher, "d" is pending and "e" has
\* no record.
Callers == {"a", "b", "c", "d", "e"}

\* The email the verified token carries for a subject.
Email(uid) ==
    CASE uid = "a" -> "a@x.io"
      [] uid = "b" -> "b@x.io"
      [] uid = "c" -> "c@x.io"
      [] uid = "d" -> "d@x.io"
      [] OTHER     -> "e@x.io"

\* JSON null, per field type.
NullStr  == "null"
NullDate == 0

allowedRoles == {"creator", "publisher", "admin"}

\* The role strings a request body can carry; "" stands for a missing role.
RoleInputs == {"creator", "Admin", "owner", ""}

\* String.prototype.toLowerCase on the role inputs.
RoleToLowerCase(r) == IF r = "Admin" THEN "admin" ELSE r

\* ObjectId.isValid: 0 stands for a malformed id string, n > 0 for the
\* well-formed id of the n-th inserted document (which may not exist yet).
ObjectIdIsValid(id) == id > 0

\* The response sent by the last step: the operation answered, the HTTP
\* status and the number of records in the body; NoResp when the last step
\* sent none.
NoResp == [op |-> "none", code |-> 0, n |-> 0]

Response(op, code, n) == [op |-> op, code |-> code, n |-> n]

\* A request answered by its first step.
Answer(r) == /\ ~Busy
             /\ inflight' = inflight
             /\ resp' = r

\* A request left waiting on its next store operation.
Await(k) == /\ ~Busy
            /\ inflight' = inflight (+) SetToBag({k})
            /\ resp' = NoResp

\* The waiting request k goes on to wait on its next store operation.
Continue(k, k2) == /\ inflight' = (inflight (-) SetToBag({k})) (+) SetToBag({k2})
                   /\ resp' = NoResp

\* The waiting request k is answered.
Respond(k, r) == /\ inflight' = inflight (-) SetToBag({k})
                 /\ resp' = r

Waiting(pc) == {k \in BagToSet(inflight) : k.pc = pc}

\* ---------------------------------------------------------- store helpers
\* The lookup with a filter on a field no record has: it matches nothing.
FindUserByUidWrongField(uid) == 0

\* userCollection.findOne({ firebaseUid: uid }): the first match in natural
\* order, 0 when there is none.
FindUserByUid(uid) ==
    LET hits == {i \in 1..Len(users) : users[i].firebaseUid = uid}
    IN  IF hits = {} THEN 0 ELSE CHOOSE i \in hits : \A j \in hits : i <= j

\* if (!me || me.status !== 'approved' || me.role !== 'admin')
IsAdmin(me) ==
    /\ me # 0
    /\ users[me].status = "approved"
    /\ users[me].role = "admin"

\* ------------------------------------------------------------------- Init
SeedAdmin ==
    [firebaseUid |-> "a", email |-> Email("a"), requestedRole |-> "admin",
     status |-> "approved", role |-> "admin", createdAt |-> 1,
     approvedAt |-> 1, approvedBy |-> Email("a")]

Init ==
    /\ users = <<SeedAdmin>>
    /\ posts = <<>>
    /\ tags = <<>>
    /\ now = 1
    /\ inflight = EmptyBag
    /\ resp = NoResp

\* Time passes between two reads of the clock.
Tick ==
    /\ now < MaxTime
    /\ now' = now + 1
    /\ resp' = NoResp
    /\ UNCHANGED <<users, posts, tags, inflight>>

\* ------------------------------------------------------- POST /api/users
\* Role validation, the existence check and the building of the record.
RequestAccessFind(uid, role) ==
    LET requestedRole == RoleToLowerCase(role)
        existing == FindUserByUid(uid)
        body == [firebaseUid |-> uid, email |-> Email(uid),
                 requestedRole |-> requestedRole, status |-> "pending",
                 role |-> NullStr, createdAt |-> now,
                 approvedAt |-> NullDate, approvedBy |-> NullStr]
    IN  /\ IF requestedRole \notin allowedRoles
             THEN Answer(Response("requestAccess", 400, 0))
             ELSE IF existing # 0
               THEN Answer(Response("requestAccess", 409, 0))
               ELSE Await([pc |-> "ra_insert", body |-> body])
        /\ UNCHANGED <<users, posts, tags, now>>

\* The insert written as an upsert on firebaseUid: an existing record of the
\* subject is replaced by the new pending one.
RequestAccessUpsert(k) ==
    LET me == FindUserByUid(k.body.firebaseUid)
    IN  /\ k \in Waiting("ra_insert")
        /\ Len(users) < MaxUsers
        /\ users' = IF me = 0 THEN Append(users, k.body)
                              ELSE [users EXCEPT ![me] = k.body]
        /\ Respond(k, Response("requestAccess", 201, 0))
        /\ UNCHANGED <<posts, tags, now>>

\* userCollection.insertOne(body) and the 201 response.
RequestAccessInsert(k) ==
    /\ k \in Waiting("ra_insert")
    /\ Len(users) < MaxUsers
    /\ users' = Append(users, k.body)
    /\ Respond(k, Response("requestAccess", 201, 0))
    /\ UNCHANGED <<posts, tags, now>>

\* ------------------------------------ GET /api/access-requests (admin only)
\* The admin check on the caller's record.
ListPendingGate(uid) ==
    LET me == FindUserByUid(uid)
    IN  /\ IF ~IsAdmin(me)
             THEN Answer(Response("listPendingRequests", 403, 0))
             ELSE Await([pc |-> "lp_find"])
        /\ UNCHANGED <<users, posts, tags, now>>

\* userCollection.find({ status: 'pending' }); the response carries the
\* number of records returned.
ListPendingFind(k) ==
    /\ k \in Waiting("lp_find")
    /\ Respond(k, Response("listPendingRequests", 200,
                  Cardinality({i \in 1..Len(users) : users[i].status = "pending"})))
    /\ UNCHANGED <<users, posts, tags, now>>

\* --------------------------- PATCH /api/access-requests/:id/approve (admin)
\* The id check and the admin check on the caller's record.
ApproveGate(uid, id) ==
    LET me == FindUserByUid(uid)
    IN  /\ IF ~ObjectIdIsValid(id)
             THEN Answer(Response("approve", 400, 0))
             ELSE IF ~IsAdmin(me)
               THEN Answer(Response("approve", 403, 0))
               ELSE Await([pc |-> "ap_findUser", uid |-> uid, id |-> id,
                           email |-> users[me].email])
        /\ UNCHANGED <<users, posts, tags, now>>

\* The update document with the target's current role in place of the
\* requested one.
ApproveDocCopiesRole(user, meEmail) ==
    [status |-> "approved", role |-> user.role,
     approvedAt |-> now, approvedBy |-> meEmail]

\* The update document stamped with the target's email, not the approver's.
ApproveDocTargetEmail(user, meEmail) ==
    [status |-> "approved", role |-> user.requestedRole,
     approvedAt |-> now, approvedBy |-> user.email]

\* The $set document built from the target as it was read.
ApproveDoc(user, meEmail) ==
    [status |-> "approved", role |-> user.requestedRole,
     approvedAt |-> now, approvedBy |-> meEmail]

\* userCollection.findOne({ _id }) of the target and the update document.
ApproveFindUser(k) ==
    /\ k \in Waiting("ap_findUser")
    /\ IF k.id > Len(users)
         THEN Respond(k, Response("approve", 404, 0))
         ELSE Continue(k, [pc |-> "ap_update", uid |-> k.uid, id |-> k.id,
                           doc |-> ApproveDoc(users[k.id], k.email)])
    /\ UNCHANGED <<users, posts, tags, now>>

\* updateOne's $set on a user record.
SetUser(u, doc) ==
    [u EXCEPT !.status = doc.status, !.role = doc.role,
              !.approvedAt = doc.approvedAt, !.approvedBy = doc.approvedBy]

\* userCollection.updateOne(query, updatedDoc) and the 200 response.
ApproveUpdate(k) ==
    /\ k \in Waiting("ap_update")
    /\ users' = [users EXCEPT ![k.id] = SetUser(@, k.doc)]
    /\ Respond(k, Response("approve", 200, 0))
    /\ UNCHANGED <<posts, tags, now>>

\* ------------------------------------------------------ GET /api/users/me
GetSelf(uid) ==
    LET me == FindUserByUid(uid)
    IN  /\ IF me = 0
             THEN Answer(Response("getSelf", 404, 0))
             ELSE Answer(Response("getSelf", 200, 0))
        /\ UNCHANGED <<users, posts, tags, now>>

\* Ids a request can name: 0 is malformed, an id above Len(users) matches
\* nothing.
UserIds == 0..MaxUsers

NextUsers ==
    \/ Tick
    \/ \E uid \in Subjects, role \in RoleInputs : RequestAccessFind(uid, role)
    \/ \E k \in BagToSet(inflight) : RequestAccessInsert(k)
    \/ \E uid \in Subjects : ListPendingGate(uid)
    \/ \E k \in BagToSet(inflight) : ListPendingFind(k)
    \/ \E uid \in Subjects, id \in UserIds : ApproveGate(uid, id)
    \/ \E k \in BagToSet(inflight) : ApproveFindUser(k)
    \/ \E k \in BagToSet(inflight) : ApproveUpdate(k)
    \/ \E uid \in Subjects : GetSelf(uid)

SpecUsers == Init /\ [][NextUsers]_vars

\* ================================================================= posts
\* Text that the handlers normalise is a sequence of characters.
IsSpace(c) == c = " "

ToLowerChar(c) ==
    CASE c = "F" -> "f"
      [] c = "O" -> "o"
      [] c = "M" -> "m"
      [] OTHER   -> c

\* String.prototype.toLowerCase
ToLowerCase(s) == [i \in 1..Len(s) |-> ToLowerChar(s[i])]

\* String.prototype.trim: leading and trailing white space removed.
Trim(s) ==
    LET ink == {i \in 1..Len(s) : ~IsSpace(s[i])}
        lo  == CHOOSE i \in ink : \A j \in ink : i <= j
        hi  == CHOOSE i \in ink : \A j \in ink : i >= j
    IN  IF ink = {} THEN <<>> ELSE SubSeq(s, lo, hi)

\* JSON null in a text field.
NullText == <<"null">>

Has(r, f) == f \in DOMAIN r

\* The value of body field f as the driver writes it in a $set: an undefined
\* value is serialised as null.
OrNull(body, f, null) == IF Has(body, f) THEN body[f] ELSE null

\* r without field f ($unset).
Unset(r, f) == [g \in DOMAIN r \ {f} |-> r[g]]

\* Ids a request can name: 0 is malformed, an id above Len(posts) matches
\* nothing.
PostIds == 0..MaxPosts

\* limit(10) of the post listings.
PageLimit == 10

Min(a, b) == IF a <= b THEN a ELSE b

\* Bodies of POST /api/posts.  The record with no field is the body {}.
CreateBodies ==
    { [account |-> <<" ", "F", "o", " ">>, day |-> <<" ", "M", " ">>,
       caption |-> "c1"],
      [account |-> <<"f", "o">>, day |-> <<"m">>, status |-> "posted",
       postedAt |-> 1],
      [day |-> <<"m">>],
      [account |-> <<"f", "o">>],
      <<>> }

\* Bodies of PATCH /api/posts/:id: whitelisted fields given (account and
\* day not normalised), whitelisted fields left out, and fields outside the
\* whitelist.
UpdateBodies ==
    { [account |-> <<" ", "F", "o", " ">>, day |-> <<" ", "M", " ">>,
       caption |-> "c2", status |-> "posted", postedAt |-> 1,
       createdAt |-> 1] }

\* Bodies of POST /api/tags.
TagBodies == { [account |-> <<" ", "F", "o", " ">>, name |-> "t1"],
               [name |-> "t1"] }

\* Values of the status field of PATCH /api/posts/:id/status; "" stands for
\* a body without it and for any other string.
StatusInputs == {"posted", "pending", ""}

\* Values of the account query parameter; the empty string is falsy.
AccountFilters == { <<>>, <<"F", "o">> }

\* The directory the post and tag routes are exercised against: the
\* bootstrap admin, an approved creator, an approved publisher and a pending
\* request.
UserRecord(uid, requested, approved) ==
    [firebaseUid |-> uid, email |-> Email(uid), requestedRole |-> requested,
     status |-> IF approved THEN "approved" ELSE "pending",
     role |-> IF approved THEN requested ELSE NullStr, createdAt |-> 1,
     approvedAt |-> IF approved THEN 1 ELSE NullDate,
     approvedBy |-> IF approved THEN Email("a") ELSE NullStr]

InitPosts ==
    /\ users = <<SeedAdmin, UserRecord("b", "creator", TRUE),
                 UserRecord("c", "publisher", TRUE),
                 UserRecord("d", "creator", FALSE)>>
    /\ posts = <<>>
    /\ tags = <<>>
    /\ now = 1
    /\ inflight = EmptyBag
    /\ resp = NoResp

\* ------------------------------------------------------- POST /api/posts
\* The same handler in the API server and in the stand-alone posts server.
\* hasBody is false when req.body is undefined.  A missing account or day
\* throws on .trim() and the catch answers 500.
CreatePost(hasBody, body) ==
    /\ IF ~hasBody
         THEN Answer(Response("createPost", 400, 0)) /\ posts' = posts
         ELSE IF ~Has(body, "account") \/ ~Has(body, "day")
           THEN Answer(Response("createPost", 500, 0)) /\ posts' = posts
           ELSE /\ Len(posts) < MaxPosts
                /\ posts' = Append(posts,
                     [account |-> ToLowerCase(Trim(body.account)),
                      day |-> ToLowerCase(Trim(body.day)),
                      createdAt |-> now, status |-> "pending"] @@ body)
                /\ Answer(Response("createPost", 200, 0))
    /\ UNCHANGED <<users, tags, now>>

\* ------------------------------------------ GET /api/posts (approval gate)
ListPosts(uid, account) ==
    LET me == FindUserByUid(uid)
        hits == {i \in 1..Len(posts) :
                    account = <<>> \/ posts[i].account = ToLowerCase(account)}
    IN  /\ IF me = 0 \/ users[me].status # "approved"
             THEN Answer(Response("listPosts", 403, 0))
             ELSE Answer(Response("listPosts", 200, Min(Cardinality(hits), PageLimit)))
        /\ UNCHANGED <<users, posts, tags, now>>

\* ------------------------- GET /api/posts of the stand-alone posts server
\* No token and no gate: whoever calls is served.
ListPostsStandalone ==
    /\ Answer(Response("listPostsStandalone", 200, Min(Len(posts), PageLimit)))
    /\ UNCHANGED <<users, posts, tags, now>>

\* -------------------------------------------------- PATCH /api/posts/:id
\* The $set document spread from the whole request body.
UpdateDocWholeBody(body, meEmail) ==
    [updatedAt |-> now, updatedBy |-> meEmail] @@ body

\* The $set document: the whitelisted fields, updatedAt and updatedBy.
UpdateDoc(body, meEmail) ==
    [account   |-> OrNull(body, "account", NullText),
     day       |-> OrNull(body, "day", NullText),
     caption   |-> OrNull(body, "caption", NullStr),
     cta       |-> OrNull(body, "cta", NullStr),
     source    |-> OrNull(body, "source", NullStr),
     driveLink |-> OrNull(body, "driveLink", NullStr),
     hashtags  |-> OrNull(body, "hashtags", NullStr),
     updatedAt |-> now,
     updatedBy |-> meEmail]

UpdatePost(uid, id, body) ==
    LET me == FindUserByUid(uid)
    IN  /\ IF ~ObjectIdIsValid(id)
             THEN Answer(Response("updatePost", 400, 0)) /\ posts' = posts
             ELSE IF \/ me = 0
                     \/ users[me].status # "approved"
                     \/ (users[me].role # "admin" /\ users[me].role # "creator")
               THEN Answer(Response("updatePost", 403, 0)) /\ posts' = posts
               ELSE /\ posts' = IF id > Len(posts) THEN posts
                                ELSE [posts EXCEPT
                                        ![id] = UpdateDoc(body, users[me].email) @@ @]
                    /\ Answer(Response("updatePost", 200, 0))
        /\ UNCHANGED <<users, tags, now>>

\* --------------------------------------------- PATCH /api/posts/:id/status
SetPostStatus(id, status) ==
    /\ IF ~ObjectIdIsValid(id) \/ status \notin {"posted", "pending"}
         THEN Answer(Response("setPostStatus", 400, 0)) /\ posts' = posts
         ELSE IF id > Len(posts)
           THEN Answer(Response("setPostStatus", 404, 0)) /\ posts' = posts
           ELSE /\ posts' = [posts EXCEPT ![id] =
                      IF status = "posted"
                        THEN [status |-> status, postedAt |-> now] @@ @
                        ELSE Unset([status |-> status] @@ @, "postedAt")]
                /\ Answer(Response("setPostStatus", 200, 0))
    /\ UNCHANGED <<users, tags, now>>

\* -------------------------------------------------------- POST /api/tags
CreateTag(uid, hasBody, body) ==
    LET me == FindUserByUid(uid)
    IN  /\ IF ~hasBody
             THEN Answer(Response("createTag", 400, 0)) /\ tags' = tags
             ELSE IF ~IsAdmin(me)
               THEN Answer(Response("createTag", 403, 0)) /\ tags' = tags
               ELSE IF ~Has(body, "account")
                 THEN Answer(Response("createTag", 500, 0)) /\ tags' = tags
                 ELSE /\ Len(tags) < MaxTags
                      /\ tags' = Append(tags,
                           [account |-> ToLowerCase(Trim(body.account)),
                            createdAt |-> now] @@ body)
                      /\ Answer(Response("createTag", 200, 0))
        /\ UNCHANGED <<users, posts, now>>

NextPosts ==
    \/ Tick
    \/ \E hasBody \in BOOLEAN, body \in CreateBodies : CreatePost(hasBody, body)
    \/ \E uid \in Callers, account \in AccountFilters : ListPosts(uid, account)
    \/ ListPostsStandalone
    \/ \E uid \in Callers, id \in PostIds, body \in UpdateBodies :
          UpdatePost(uid, id, body)
    \/ \E id \in PostIds, status \in StatusInputs : SetPostStatus(id, status)
    \/ \E uid \in Callers, hasBody \in BOOLEAN, body \in TagBodies :
          CreateTag(uid, hasBody, body)

SpecPosts == InitPosts /\ [][NextPosts]_vars

\* ============================================================ user claims
\* C1: in every reachable state of the user directory each record has a
\* non-null role if and only if its status is approved: a pending record has
\* role null, an approved record has a role among creator, publisher, admin.
C1_RoleIffApproved ==
    \A i \in 1..Len(users) :
        /\ users[i].status \in {"pending", "approved"}
        /\ (users[i].role # NullStr) <=> (users[i].status = "approved")
        /\ users[i].status = "approved" => users[i].role \in allowedRoles

\* A directory holding a pending request next to a request that was approved.
C1_Witness ==
    \E i, j \in 2..Len(users) :
        /\ users[i].status = "pending" /\ users[i].role = NullStr
        /\ users[j].status = "approved" /\ users[j].approvedAt # NullDate

\* C2: a subject has at most one user record in every reachable state,
\* whatever the interleaving of the existence check and the insert of
\* concurrent access requests.
C2_AtMostOneRecordPerSubject ==
    \A i, j \in 1..Len(users) :
        users[i].firebaseUid = users[j].firebaseUid => i = j

\* C3: an access request with a valid role by a subject that already has a
\* record is answered 409 at once and leaves the users collection as it was:
\* every step is such an answer, or is no step of RequestAccessFind taken
\* with a valid role by a subject that has a record.
C3_ConflictLeavesDirectory ==
    [][\/ /\ resp' = Response("requestAccess", 409, 0)
          /\ users' = users
          /\ inflight' = inflight
       \/ resp'.op \notin {"requestAccess", "none"}
       \/ users' # users
       \/ \A uid \in Subjects, role \in RoleInputs :
            ~( /\ RoleToLowerCase(role) \in allowedRoles
               /\ \E i \in 1..Len(users) : users[i].firebaseUid = uid
               /\ RequestAccessFind(uid, role) )]_vars

\* A 409 answered while the directory holds a record created by a request.
C3_Witness == resp = Response("requestAccess", 409, 0) /\ Len(users) >= 2

\* C4: a successful approve leaves the target approved with its role equal
\* to its own requestedRole; on an already approved target role and status
\* stay as they were, and approvedAt and approvedBy are overwritten with
\* this approval's time and this approver's email.
C4_ApproveEffect ==
    [][\A k \in BagToSet(inflight) :
          ApproveUpdate(k) =>
            LET old == users[k.id]
                new == users'[k.id]
            IN  /\ resp' = Response("approve", 200, 0)
                /\ new.status = "approved"
                /\ new.role = new.requestedRole
                /\ old.status = "approved" =>
                       (new.role = old.role /\ new.status = old.status)
                /\ new.approvedAt = k.doc.approvedAt
                /\ new.approvedAt # NullDate /\ new.approvedAt <= now
                /\ new.approvedBy = Email(k.uid)
                /\ \A j \in 1..Len(users) : j # k.id => users'[j] = users[j]]_vars

\* The bootstrap admin approved again, later, by the second admin.
C4_Witness ==
    /\ users[1].status = "approved" /\ users[1].role = "admin"
    /\ users[1].approvedBy = Email("b")
    /\ users[1].approvedAt > SeedAdmin.approvedAt

\* C8: a record's status only moves from pending to approved: an approved
\* record stays approved, and no step changes a record's subject id or
\* requestedRole or removes the record.
C8_StatusMonotone ==
    [][/\ Len(users') >= Len(users)
       /\ \A i \in 1..Len(users) :
            /\ users[i].status = "approved" => users'[i].status = "approved"
            /\ users'[i].firebaseUid = users[i].firebaseUid
            /\ users'[i].requestedRole = users[i].requestedRole]_vars

\* A requested record that went from pending to approved, just answered.
C8_Witness ==
    \E i \in 2..Len(users) :
        /\ users[i].status = "approved"
        /\ users[i].role = users[i].requestedRole
        /\ resp = Response("approve", 200, 0)

\* ============================================================ post claims
Whitelist == {"account", "day", "caption", "cta", "source", "hashtags",
              "driveLink"}

EditFields == Whitelist \cup {"updatedAt", "updatedBy"}

\* Post q differs from post r at most in the fields of F.
SameOutside(r, q, F) ==
    /\ DOMAIN q \ F = DOMAIN r \ F
    /\ \A f \in DOMAIN r \ F : q[f] = r[f]

Approved(uid) ==
    \E i \in 1..Len(users) :
        users[i].firebaseUid = uid /\ users[i].status = "approved"

HasRole(uid, roles) ==
    \E i \in 1..Len(users) :
        /\ users[i].firebaseUid = uid
        /\ users[i].status = "approved"
        /\ users[i].role \in roles

\* The refusal the gate owes: 403, no record returned, nothing written.
Refused ==
    /\ resp'.code = 403
    /\ resp'.n = 0
    /\ UNCHANGED <<users, posts, tags>>

\* C5: the access gate fails closed.  A caller with no record, with a record
\* that is not approved, or with a role outside the policy of the operation
\* (admin for listPendingRequests, approve and createTag; admin or creator
\* for updatePost; any role for listPosts) is answered 403, is returned no
\* record, and nothing is written.
C5_GateFailsClosed ==
    [][/\ resp'.op \in {"listPosts", "listPostsStandalone"} =>
            \A uid \in Callers :
               ( /\ ~Approved(uid)
                 /\ \/ \E account \in AccountFilters : ListPosts(uid, account)
                    \/ ListPostsStandalone )
               => Refused
       /\ resp'.op = "updatePost" =>
            \A uid \in Callers :
               ( /\ ~HasRole(uid, {"admin", "creator"})
                 /\ \E id \in PostIds, body \in UpdateBodies :
                       UpdatePost(uid, id, body) )
               => Refused
       /\ resp'.op \in {"createTag", "listPendingRequests", "approve"} =>
            \A uid \in Callers :
               ( /\ ~HasRole(uid, {"admin"})
                 /\ \/ \E hasBody \in BOOLEAN, body \in TagBodies :
                          CreateTag(uid, hasBody, body)
                    \/ ListPendingGate(uid)
                    \/ \E id \in UserIds : ApproveGate(uid, id) )
               => Refused]_vars

\* C6: createPost answers 400 and inserts nothing whenever the body is
\* absent or lacks account or lacks day.
C6_CreatePostBadRequest ==
    [][resp'.op = "createPost" =>
         \A hasBody \in BOOLEAN, body \in CreateBodies :
            ( /\ ~hasBody \/ ~Has(body, "account") \/ ~Has(body, "day")
              /\ CreatePost(hasBody, body) )
            => (resp'.code = 400 /\ posts' = posts)]_vars

\* C7: in every reachable state a post has a postedAt field if and only if
\* its status is posted.
C7_PostedAtIffPosted ==
    \A i \in 1..Len(posts) :
        Has(posts[i], "postedAt") <=> posts[i].status = "posted"

\* C9: in every reachable state the account and the day of every stored
\* post are in normalised form, trimmed and lower-case.
C9_AccountDayNormalized ==
    \A i \in 1..Len(posts) :
        /\ posts[i].account = ToLowerCase(Trim(posts[i].account))
        /\ posts[i].day = ToLowerCase(Trim(posts[i].day))

\* C10: updatePost changes at most the whitelisted content fields, updatedAt
\* and updatedBy of the post it names: that post's status, postedAt,
\* createdAt and other fields, every other post, and all user and tag
\* records stay as they were; and a status flip changes none of the content
\* fields, so edits and flips are independent in either order.
C10_UpdatePostFrame ==
    [][/\ resp'.op = "updatePost" =>
            \A id \in PostIds :
               \/ /\ users' = users /\ tags' = tags
                  /\ Len(posts') = Len(posts)
                  /\ \A j \in 1..Len(posts) :
                        IF j = id
                          THEN SameOutside(posts[j], posts'[j], EditFields)
                          ELSE posts'[j] = posts[j]
               \/ \A uid \in Callers, body \in UpdateBodies :
                     ~UpdatePost(uid, id, body)
       /\ resp'.op = "setPostStatus" =>
            \A id \in PostIds :
               \/ /\ Len(posts') = Len(posts)
                  /\ \A j \in 1..Len(posts) :
                        IF j = id
                          THEN SameOutside(posts[j], posts'[j],
                                           {"status", "postedAt"})
                          ELSE posts'[j] = posts[j]
               \/ \A status \in StatusInputs : ~SetPostStatus(id, status)]_vars

\* An edited post that is posted, with its stamps, next to a post that was
\* never edited.
C10_Witness ==
    \E i, j \in 1..Len(posts) :
        /\ Has(posts[i], "updatedBy") /\ posts[i].caption = "c2"
        /\ posts[i].status = "posted" /\ Has(posts[i], "postedAt")
        /\ posts[i].updatedAt > posts[i].createdAt
        /\ ~Has(posts[j], "updatedBy")
====
